---------------------------- MODULE Spec2Model ----------------------------
(***************************************************************************)
(* Model of scripts/tracy.py: the clean / build / run orchestration of the *)
(* tracy profiler helper.                                                  *)
(*                                                                         *)
(* The state is the part of the filesystem the script touches (vendored    *)
(* source checkout, build artifact, cache directory with its files), the   *)
(* machine's environment (os.name, tools on PATH) and the observable       *)
(* record of the last invocation (ordered event log, build's return value, *)
(* make's return code, process exit code).  git itself is taken to be      *)
(* installed (the vendored checkout is a git checkout); the outcome of     *)
(* `git reset --hard` and of `make` is chosen nondeterministically.        *)
(***************************************************************************)
EXTENDS Integers, Sequences, FiniteSets, TLC

VARIABLES os_name, PATH, fs, pre, cmd, log, ret, make_returncode, exitcode

vars == <<os_name, PATH, fs, pre, cmd, log, ret, make_returncode, exitcode>>

\* File contents are abstracted to 1..MaxContent; 0 means "no such file".
MaxContent == 2

Contents == 0..MaxContent

\* The two names TRACY_TARGET_EXEC can take inside TRACY_DIR.
CacheNames == {"tracy", "tracy.exe"}

Tools == {"pkg-config", "make"}

TRACY_TARGET_EXEC == IF os_name = "posix" THEN "tracy" ELSE "tracy.exe"

\* Well-formed filesystem states:
\*   src      TRACY_SOURCE exists
\*   dirty    the checkout has uncommitted changes to tracked files
\*   artifact content of TRACY_BUILT_UNIX_EXEC (untracked build output)
\*   cache    TRACY_DIR exists
\*   files    content of each file of TRACY_DIR
\*   xbit     S_IEXEC bit of each file of TRACY_DIR
FsStates ==
    { f \in [src : BOOLEAN, dirty : BOOLEAN, artifact : Contents,
             cache : BOOLEAN, files : [CacheNames -> Contents],
             xbit : [CacheNames -> BOOLEAN]] :
        /\ (~f.src => (~f.dirty /\ f.artifact = 0))
        /\ \A n \in CacheNames :
              /\ (~f.cache => f.files[n] = 0)
              /\ (f.files[n] = 0 => ~f.xbit[n]) }

\* Outcomes of one `make` child process: exit code, what it leaves at the
\* artifact path, whether it modified tracked files of the checkout.
MakeOutcomes == [rc : {0, 2}, artifact : Contents, dirty : BOOLEAN]

--------------------------------------------------------------------------
\* The interpreter state threaded through the functions of the script.
\* exitcode = -1 while the process is still running.

Emit(m, e) == [m EXCEPT !.log = Append(@, e)]

Running(m) == m.exitcode = -1

exit(m, code) == [Emit(m, "exit") EXCEPT !.exitcode = code]

which(tool) == tool \in PATH

create_tracy_dir(m) ==
    LET m1 == Emit(m, "create_tracy_dir") IN
    IF ~m1.fs.cache
    THEN [Emit(m1, "mkdir") EXCEPT !.fs.cache = TRUE]
    ELSE m1

\* Variant: the reset is issued without looking for the checkout first.
clean_tracy_third_party_changes_unguarded(m, gitOk) ==
    LET m1 == Emit(m, "clean_tracy_third_party_changes") IN
    [Emit(m1, "git reset") EXCEPT !.fs.dirty = IF gitOk THEN FALSE ELSE @]

\* git reset --hard restores tracked files when it succeeds and leaves the
\* checkout as it was when it fails; its exit code is not looked at.
clean_tracy_third_party_changes(m, gitOk) ==
    LET m1 == Emit(m, "clean_tracy_third_party_changes") IN
    IF m1.fs.src
    THEN [Emit(m1, "git reset") EXCEPT !.fs.dirty = IF gitOk THEN FALSE ELSE @]
    ELSE m1

\* Variant: the cache directory is left behind.
clean_tracy_keepCache(m, gitOk) ==
    clean_tracy_third_party_changes(Emit(m, "clean_tracy"), gitOk)

clean_tracy(m, gitOk) ==
    LET m1 == clean_tracy_third_party_changes(Emit(m, "clean_tracy"), gitOk) IN
    IF m1.fs.cache
    THEN [Emit(m1, "rmtree") EXCEPT !.fs.cache = FALSE,
                                    !.fs.files = [n \in CacheNames |-> 0],
                                    !.fs.xbit = [n \in CacheNames |-> FALSE]]
    ELSE m1

\* subprocess.call(["make", "LEGACY=1", "-C", <source>/profiler/build/unix]):
\* without the directory make stops with status 2 and writes nothing.
make(m, mk) ==
    LET m1 == Emit(m, "make") IN
    IF ~m1.fs.src
    THEN [m1 EXCEPT !.make_returncode = 2]
    ELSE [m1 EXCEPT !.make_returncode = mk.rc,
                    !.fs.artifact = mk.artifact,
                    !.fs.dirty = @ \/ mk.dirty]

\* shutil.copyfile: content only; an existing destination keeps its mode, a
\* new one is created without the executable bit.
copyfile(m, dst) ==
    [Emit(m, "copyfile") EXCEPT !.fs.files[dst] = m.fs.artifact]

\* Variant: a missing tool is reported but nothing is cleaned up.
build_tracy_unix_noToolClean(m, mk, gitOk) ==
    LET m0 == Emit(m, "build_tracy_unix") IN
    IF ~which("pkg-config")
    THEN [Emit(Emit(m0, "which pkg-config"),
               "print pkg-config not found in PATH") EXCEPT !.ret = "False"]
    ELSE IF ~which("make")
    THEN [Emit(Emit(Emit(m0, "which pkg-config"), "which make"),
               "print make not found in PATH") EXCEPT !.ret = "False"]
    ELSE
      LET m1 == make(Emit(Emit(Emit(m0, "which pkg-config"), "which make"),
                          "print hint"), mk) IN
      IF m1.make_returncode # 0
      THEN [clean_tracy(Emit(m1, "print make failed to build tracy"), gitOk)
              EXCEPT !.ret = "False"]
      ELSE
        LET m2 == IF m1.fs.artifact # 0
                  THEN copyfile(create_tracy_dir(m1), TRACY_TARGET_EXEC)
                  ELSE m1
        IN [clean_tracy_third_party_changes(m2, gitOk) EXCEPT !.ret = "True"]

\* Variant: a failed make only reverts the checkout, keeping the cache.
build_tracy_unix_revertOnly(m, mk, gitOk) ==
    LET m0 == Emit(m, "build_tracy_unix") IN
    IF ~which("pkg-config")
    THEN [clean_tracy(Emit(Emit(m0, "which pkg-config"),
                           "print pkg-config not found in PATH"), gitOk)
            EXCEPT !.ret = "False"]
    ELSE IF ~which("make")
    THEN [clean_tracy(Emit(Emit(Emit(m0, "which pkg-config"), "which make"),
                           "print make not found in PATH"), gitOk)
            EXCEPT !.ret = "False"]
    ELSE
      LET m1 == make(Emit(Emit(Emit(m0, "which pkg-config"), "which make"),
                          "print hint"), mk) IN
      IF m1.make_returncode # 0
      THEN [clean_tracy_third_party_changes(
                Emit(m1, "print make failed to build tracy"), gitOk)
              EXCEPT !.ret = "False"]
      ELSE
        LET m2 == IF m1.fs.artifact # 0
                  THEN copyfile(create_tracy_dir(m1), TRACY_TARGET_EXEC)
                  ELSE m1
        IN [clean_tracy_third_party_changes(m2, gitOk) EXCEPT !.ret = "True"]

\* Variant: the checkout is reverted before the artifact is copied.
build_tracy_unix_revertFirst(m, mk, gitOk) ==
    LET m0 == Emit(m, "build_tracy_unix") IN
    IF ~which("pkg-config")
    THEN [clean_tracy(Emit(Emit(m0, "which pkg-config"),
                           "print pkg-config not found in PATH"), gitOk)
            EXCEPT !.ret = "False"]
    ELSE IF ~which("make")
    THEN [clean_tracy(Emit(Emit(Emit(m0, "which pkg-config"), "which make"),
                           "print make not found in PATH"), gitOk)
            EXCEPT !.ret = "False"]
    ELSE
      LET m1 == make(Emit(Emit(Emit(m0, "which pkg-config"), "which make"),
                          "print hint"), mk) IN
      IF m1.make_returncode # 0
      THEN [clean_tracy(Emit(m1, "print make failed to build tracy"), gitOk)
              EXCEPT !.ret = "False"]
      ELSE
        LET m2 == clean_tracy_third_party_changes(m1, gitOk)
            m3 == IF m2.fs.artifact # 0
                  THEN copyfile(create_tracy_dir(m2), TRACY_TARGET_EXEC)
                  ELSE m2
        IN [m3 EXCEPT !.ret = "True"]

build_tracy_unix(m, mk, gitOk) ==
    LET m0 == Emit(m, "build_tracy_unix") IN
    IF ~which("pkg-config")
    THEN [clean_tracy(Emit(Emit(m0, "which pkg-config"),
                           "print pkg-config not found in PATH"), gitOk)
            EXCEPT !.ret = "False"]
    ELSE IF ~which("make")
    THEN [clean_tracy(Emit(Emit(Emit(m0, "which pkg-config"), "which make"),
                           "print make not found in PATH"), gitOk)
            EXCEPT !.ret = "False"]
    ELSE
      LET m1 == make(Emit(Emit(Emit(m0, "which pkg-config"), "which make"),
                          "print hint"), mk) IN
      IF m1.make_returncode # 0
      THEN [clean_tracy(Emit(m1, "print make failed to build tracy"), gitOk)
              EXCEPT !.ret = "False"]
      ELSE
        LET m2 == IF m1.fs.artifact # 0
                  THEN copyfile(create_tracy_dir(m1), TRACY_TARGET_EXEC)
                  ELSE m1
        IN [clean_tracy_third_party_changes(m2, gitOk) EXCEPT !.ret = "True"]

\* Variant: the platform is not looked at.
build_tracy_noGate(m, mk, gitOk) ==
    build_tracy_unix(Emit(m, "build_tracy"), mk, gitOk)

build_tracy(m, mk, gitOk) ==
    LET m0 == Emit(m, "build_tracy") IN
    IF os_name = "posix"
    THEN build_tracy_unix(m0, mk, gitOk)
    ELSE exit(Emit(m0, "print tracy not supported on windows, yet!"), 1)

\* The tail of run_tracy (lines 126-129).  os.stat of a missing file raises
\* FileNotFoundError, which nothing catches: traceback, exit status 1.
launch_tracy(m) ==
    LET m1 == Emit(Emit(m, "print tracy found"), "stat") IN
    IF m1.fs.files[TRACY_TARGET_EXEC] = 0
    THEN [Emit(m1, "FileNotFoundError") EXCEPT !.exitcode = 1]
    ELSE [Emit(Emit(m1, "chmod"), "launch")
            EXCEPT !.fs.xbit[TRACY_TARGET_EXEC] = TRUE]

\* Variant: the build is run whether or not the executable is cached.
run_tracy_alwaysBuild(m, mk, gitOk) ==
    LET m0 == Emit(m, "run_tracy")
        m1 == build_tracy(Emit(m0, "print tracy not found - building tracy"),
                          mk, gitOk) IN
    IF ~Running(m1) THEN m1
    ELSE IF m1.ret # "True"
    THEN exit(Emit(m1, "print failed to build tracy"), 1)
    ELSE launch_tracy(m1)

\* Variant: the result of the on-demand build is not looked at.
run_tracy_ignoreFailure(m, mk, gitOk) ==
    LET m0 == Emit(m, "run_tracy") IN
    IF m0.fs.files[TRACY_TARGET_EXEC] = 0
    THEN LET m1 == build_tracy(Emit(m0, "print tracy not found - building tracy"),
                               mk, gitOk) IN
         IF ~Running(m1) THEN m1 ELSE launch_tracy(m1)
    ELSE launch_tracy(m0)

run_tracy(m, mk, gitOk) ==
    LET m0 == Emit(m, "run_tracy") IN
    IF m0.fs.files[TRACY_TARGET_EXEC] = 0
    THEN LET m1 == build_tracy(Emit(m0, "print tracy not found - building tracy"),
                               mk, gitOk) IN
         IF ~Running(m1) THEN m1
         ELSE IF m1.ret # "True"
         THEN exit(Emit(m1, "print failed to build tracy"), 1)
         ELSE launch_tracy(m1)
    ELSE launch_tracy(m0)

--------------------------------------------------------------------------
\* One invocation of the script.

Entry == [fs |-> fs, log |-> <<>>, ret |-> "None",
          make_returncode |-> -1, exitcode |-> -1]

\* The interpreter leaves with status 0 when main falls off its end.
Finish(c, m) ==
    /\ pre' = fs
    /\ cmd' = c
    /\ fs' = m.fs
    /\ log' = m.log
    /\ ret' = m.ret
    /\ make_returncode' = m.make_returncode
    /\ exitcode' = IF Running(m) THEN 0 ELSE m.exitcode
    /\ UNCHANGED <<os_name, PATH>>

MainClean ==
    \E gitOk \in BOOLEAN : Finish("clean", clean_tracy(Entry, gitOk))

MainBuild ==
    \E mk \in MakeOutcomes, gitOk \in BOOLEAN :
        Finish("build", build_tracy(Entry, mk, gitOk))

MainRun ==
    \E mk \in MakeOutcomes, gitOk \in BOOLEAN :
        Finish("run", run_tracy(Entry, mk, gitOk))

MainNoArgs ==
    \E mk \in MakeOutcomes, gitOk \in BOOLEAN :
        Finish("", run_tracy(Entry, mk, gitOk))

Init ==
    /\ os_name \in {"posix", "nt"}
    /\ PATH \in SUBSET Tools
    /\ fs \in FsStates
    /\ pre = fs
    /\ cmd = "idle"
    /\ log = <<>>
    /\ ret = "None"
    /\ make_returncode = -1
    /\ exitcode = -1

Next == MainClean \/ MainBuild \/ MainRun \/ MainNoArgs

Spec == Init /\ [][Next]_vars

--------------------------------------------------------------------------
\* Properties of the last invocation, read off its event log.

Has(e) == \E i \in DOMAIN log : log[i] = e

\* Every event occurs at most once per invocation.
Pos(e) == CHOOSE i \in DOMAIN log : log[i] = e

IsRun == cmd \in {"run", ""}

BuildSteps == {"build_tracy", "build_tracy_unix", "which pkg-config",
               "which make", "make", "git reset", "clean_tracy",
               "clean_tracy_third_party_changes", "rmtree", "mkdir",
               "create_tracy_dir", "copyfile"}

NoBuildSteps == \A e \in BuildSteps : ~Has(e)

CacheRemoved(f) == [f EXCEPT !.cache = FALSE,
                             !.files = [n \in CacheNames |-> 0],
                             !.xbit = [n \in CacheNames |-> FALSE]]

TypeOK ==
    /\ os_name \in {"posix", "nt"}
    /\ PATH \subseteq Tools
    /\ fs \in FsStates
    /\ pre \in FsStates
    /\ cmd \in {"idle", "clean", "build", "run", ""}
    /\ ret \in {"None", "True", "False"}
    /\ make_returncode \in {-1, 0, 2}
    /\ exitcode \in {-1, 0, 1}

\* C1: once clean() has returned the cache directory does not exist,
\* whatever existed before and whether or not the git reset succeeded.
C1_CleanRemovesCache ==
    Has("clean_tracy") => (~fs.cache /\ \A n \in CacheNames : fs.files[n] = 0)

\* C1 witness: the clean subcommand ran on a populated cache while the git
\* reset of a modified checkout failed.
C1_Witness ==
    /\ cmd = "clean"
    /\ pre.cache /\ pre.files["tracy"] # 0
    /\ pre.src /\ pre.dirty /\ Has("git reset") /\ fs.dirty
    /\ Has("rmtree")

\* C2 (as claimed): whenever build() returns true the target executable
\* exists in the cache and has the content of the build artifact.
C2_SuccessImpliesCopied ==
    ret = "True" =>
        /\ fs.files[TRACY_TARGET_EXEC] # 0
        /\ fs.files[TRACY_TARGET_EXEC] = fs.artifact

\* C3: run() with the executable already cached performs no build step at
\* all, changes nothing but the executable bit, and launches the target.
C3_RunCachedSkipsBuild ==
    (IsRun /\ pre.files[TRACY_TARGET_EXEC] # 0) =>
        /\ NoBuildSteps
        /\ ret = "None" /\ make_returncode = -1
        /\ fs = [pre EXCEPT !.xbit[TRACY_TARGET_EXEC] = TRUE]
        /\ Has("chmod") /\ Has("launch")
        /\ Pos("chmod") < Pos("launch")

\* C3 witness: a no-argument invocation found the executable cached
\* without its executable bit and launched it.
C3_Witness ==
    /\ cmd = ""
    /\ pre.files[TRACY_TARGET_EXEC] # 0 /\ ~pre.xbit[TRACY_TARGET_EXEC]
    /\ fs.xbit[TRACY_TARGET_EXEC] /\ Has("launch")

\* C4: run() without a cached executable whose on-demand build() reports
\* failure ends with a non-zero status and never stats, chmods or launches.
C4_RunBuildFailureExits ==
    (IsRun /\ pre.files[TRACY_TARGET_EXEC] = 0 /\ ret = "False") =>
        /\ exitcode # 0
        /\ ~Has("stat") /\ ~Has("chmod") /\ ~Has("launch")
        /\ Has("print failed to build tracy")

\* C4 witness: run() built on demand and make exited non-zero.
C4_Witness ==
    /\ cmd = "run" /\ pre.files[TRACY_TARGET_EXEC] = 0
    /\ ret = "False" /\ make_returncode = 2 /\ exitcode = 1

\* C5: on a non-POSIX platform build() ends the process with status 1 and
\* performs no lookup, make, git reset or clean, and changes no file.
C5_NonPosixBuildExits ==
    (os_name # "posix" /\ Has("build_tracy")) =>
        /\ exitcode = 1
        /\ \A e \in BuildSteps \ {"build_tracy"} : ~Has(e)
        /\ fs = pre
        /\ ret = "None" /\ make_returncode = -1
        /\ ~Has("stat") /\ ~Has("launch")

\* C5 witness: the build subcommand ran on a non-POSIX machine that has
\* both tools and a checkout.
C5_Witness ==
    /\ cmd = "build" /\ os_name = "nt" /\ PATH = Tools /\ pre.src /\ pre.cache
    /\ exitcode = 1

\* C6: on POSIX with pkg-config or make missing from PATH, build() names
\* the missing tool, runs the whole of clean(), never invokes make and
\* returns failure; the build subcommand then exits with status 0.
C6_MissingToolCleansAndFails ==
    (os_name = "posix" /\ Has("build_tracy_unix") /\ PATH # Tools) =>
        /\ IF "pkg-config" \notin PATH
           THEN Has("print pkg-config not found in PATH")
           ELSE Has("print make not found in PATH")
        /\ Has("clean_tracy") /\ Has("clean_tracy_third_party_changes")
        /\ (pre.src <=> Has("git reset"))
        /\ (pre.cache <=> Has("rmtree"))
        /\ ~fs.cache
        /\ ~Has("make") /\ make_returncode = -1
        /\ ret = "False"
        /\ (cmd = "build" => exitcode = 0 /\ ~Has("exit"))

\* C6 witness: the build subcommand ran with make missing while a cache
\* directory holding an executable existed.
C6_Witness ==
    /\ cmd = "build" /\ os_name = "posix" /\ PATH = {"pkg-config"}
    /\ pre.cache /\ pre.files["tracy"] # 0 /\ pre.src
    /\ ret = "False" /\ exitcode = 0

\* C7: when make exits non-zero build() prints the failure, runs the whole
\* of clean() after make (reset of an existing checkout, then removal of
\* the cache directory with anything cached earlier), copies nothing and
\* returns failure.
C7_MakeFailureCleans ==
    (Has("make") /\ make_returncode # 0) =>
        /\ Has("print make failed to build tracy")
        /\ Has("clean_tracy") /\ Pos("make") < Pos("clean_tracy")
        /\ (fs.src <=> Has("git reset"))
        /\ (Has("git reset") /\ Has("rmtree") => Pos("git reset") < Pos("rmtree"))
        /\ (pre.cache <=> Has("rmtree"))
        /\ ~fs.cache /\ \A n \in CacheNames : fs.files[n] = 0
        /\ ~Has("copyfile") /\ ~Has("mkdir")
        /\ ret = "False"

\* C7 witness: make failed although an executable from an earlier build
\* was cached and a stale artifact was left in the checkout.
C7_Witness ==
    /\ cmd = "build" /\ make_returncode = 2
    /\ pre.cache /\ pre.files["tracy"] # 0
    /\ fs.src /\ fs.artifact # 0 /\ ~fs.cache

\* C8: whenever make exits 0, with or without an artifact, only the git
\* reset runs (never the cache removal), it runs after make and after any
\* copy, the cache directory and a copied executable stay in place, and
\* build() returns success.
C8_MakeSuccessRevertsOnly ==
    make_returncode = 0 =>
        /\ Has("git reset") /\ Pos("make") < Pos("git reset")
        /\ (Has("copyfile") => Pos("copyfile") < Pos("git reset"))
        /\ (Has("copyfile") <=> fs.artifact # 0)
        /\ ~Has("rmtree") /\ ~Has("clean_tracy")
        /\ (pre.cache => fs.cache)
        /\ (Has("copyfile") =>
              fs.cache /\ fs.files[TRACY_TARGET_EXEC] = fs.artifact)
        /\ (~Has("copyfile") => fs.cache = pre.cache /\ fs.files = pre.files)
        /\ ret = "True"

\* C8 witness: make succeeded without leaving an artifact, and the reset
\* still ran while the cache directory was kept.
C8_Witness ==
    /\ cmd = "build" /\ make_returncode = 0 /\ fs.artifact = 0
    /\ pre.cache /\ fs.cache /\ Has("git reset") /\ ret = "True"

\* C9: without a vendored source directory clean() raises nothing, issues
\* no git reset, creates no directory and removes nothing but the cache
\* directory; the clean subcommand exits with status 0.
C9_CleanWithoutSource ==
    (~pre.src /\ Has("clean_tracy")) =>
        /\ ~Has("git reset") /\ ~Has("mkdir") /\ ~Has("FileNotFoundError")
        /\ fs = CacheRemoved(pre)
        /\ (pre.cache <=> Has("rmtree"))
        /\ (cmd = "clean" => exitcode = 0 /\ ~Has("exit"))

\* C9 witness: the clean subcommand ran with neither source nor cache.
C9_Witness ==
    /\ cmd = "clean" /\ ~pre.src /\ ~pre.cache /\ fs = pre /\ exitcode = 0

\* C10 (as claimed): whenever run() reaches the stat / chmod / launch
\* steps the target executable exists in the cache directory.
C10_StatFindsExecutable ==
    Has("stat") => fs.files[TRACY_TARGET_EXEC] # 0

==========================================================================
